---- MODULE Spec2Model ----
(***************************************************************************)
(* rustub-storage: a single-file, page-based table store (src/src/lib.rs). *)
(*                                                                         *)
(* The database file is modelled byte for byte.  A file is a record        *)
(*   [len |-> its length in bytes, nz |-> its non-zero bytes]              *)
(* where nz is a function from byte offset to byte value whose domain is   *)
(* exactly the set of offsets that hold a non-zero byte; every other       *)
(* offset below len reads as 0.  All sizes are the program's own           *)
(* (4096-byte pages, 32-byte directory records, 128 records).              *)
(*                                                                         *)
(* Database keeps two independent handles on the file: a BufReader for     *)
(* reading and a BufWriter for writing.  Both are part of the state:       *)
(*   reader  what the BufReader's buffer holds of the file's first bytes   *)
(*           when the buffer starts at offset 0 (create_table reads the    *)
(*           Header through it without re-reading the file);               *)
(*   wbuf    the writes handed to the BufWriter and not yet written out    *)
(*           (an operation that returns early with an error leaves them).  *)
(***************************************************************************)
EXTENDS Integers, Sequences, FiniteSets, TLC

\* ------------------------------------------------------------ constants

PAGE_SIZE == 4096
TABLE_NAME_MAX_LEN == 23
COLUMN_NAME_MAX_LEN == 28
HEADER_TABLE_ROW_LEN == 32
HEADER_TABLE_RECORD_COUNT == PAGE_SIZE \div HEADER_TABLE_ROW_LEN
META_TABLE_ROW_LEN == 32
META_TABLE_RECORD_COUNT == PAGE_SIZE \div META_TABLE_ROW_LEN
DEF_TABLE_ROW_LEN == 32
DEF_TABLE_RECORD_COUNT == PAGE_SIZE \div DEF_TABLE_ROW_LEN
I32_MAX == 2147483647
U16_MOD == 65536
U8_MOD == 256

\* ------------------------------------------------------------ bounds

\* Number of public calls made on the database in one run.
MaxOps == 4
\* Number of create_table calls of the header-capacity scenario.
CapCalls == 129

\* ------------------------------------------------------------ bytes

Max(a, b) == IF a >= b THEN a ELSE b

\* i32::from_be_bytes: the four bytes as a signed 32-bit value.
FromBe(b) ==
    (IF b[1] >= 128 THEN b[1] - 256 ELSE b[1]) * 16777216
        + b[2] * 65536 + b[3] * 256 + b[4]

\* i32::to_be_bytes of a non-negative value.
ToBe(v) ==
    << v \div 16777216, (v \div 65536) % 256, (v \div 256) % 256, v % 256 >>

\* u16::to_be_bytes / u16::from_be_bytes.
ToBe16(v) == << (v \div 256) % 256, v % 256 >>
FromBe16(b) == b[1] * 256 + b[2]

\* ------------------------------------------------------------ the file

\* create_database: one page of zeros.
NewFile == [len |-> PAGE_SIZE, nz |-> << >>]

Byte(f, o) == IF o \in DOMAIN f.nz THEN f.nz[o] ELSE 0

Bytes(f, off, n) == [i \in 1..n |-> Byte(f, off + i - 1)]

\* read_exact of n bytes at byte offset off succeeds (an empty read always does).
CanRead(f, off, n) == n = 0 \/ (off >= 0 /\ off + n <= f.len)

\* Seek to page p (p as u64 * PAGE_SIZE as u64) plus rel, then read_exact of n
\* bytes.  A negative p becomes an offset no seek accepts; a p past the end of
\* the file reads nothing.
CanReadPage(f, p, rel, n) ==
    /\ p >= 0
    /\ n = 0 \/ (p <= f.len \div PAGE_SIZE /\ p * PAGE_SIZE + rel + n <= f.len)

\* All n bytes from off are zero.
AllZero(f, off, n) == \A o \in DOMAIN f.nz : o < off \/ o >= off + n

\* write_all(bs) at byte offset off, once it has reached the file.
WriteAt(f, off, bs) ==
    LET n == Len(bs)
        keep == {o \in DOMAIN f.nz : o < off \/ o >= off + n}
        new == {off + i - 1 : i \in {j \in 1..n : bs[j] # 0}}
    IN  IF n = 0 THEN f
        ELSE [len |-> Max(f.len, off + n),
              nz |-> [o \in keep \cup new |->
                         IF o \in new THEN bs[o - off + 1] ELSE f.nz[o]]]

\* write_all(&vec![0; n]) at byte offset off, once it has reached the file.
ZeroFill(f, off, n) ==
    IF n = 0 THEN f
    ELSE [len |-> Max(f.len, off + n),
          nz |-> [o \in {x \in DOMAIN f.nz : x < off \/ x >= off + n} |-> f.nz[o]]]

\* One buffered write: bytes (data) or a run of zeros (zeros > 0).
WData(off, bs) == [off |-> off, data |-> bs, zeros |-> 0]
WZeros(off, n) == [off |-> off, data |-> << >>, zeros |-> n]

ApplyWrite(f, w) ==
    IF w.zeros > 0 THEN ZeroFill(f, w.off, w.zeros) ELSE WriteAt(f, w.off, w.data)

\* BufWriter::flush (also done by BufWriter::seek): the buffered writes reach the
\* file in the order they were made.
RECURSIVE Flush(_, _)
Flush(f, ws) ==
    IF ws = << >> THEN f ELSE Flush(ApplyWrite(f, Head(ws)), Tail(ws))

\* ------------------------------------------------------------ the reader

\* The BufReader's buffer does not start at offset 0, or is empty: a later
\* set_reader_to_head has to seek the file and the next read re-reads it.
NoBuf == [at0 |-> FALSE, hdr |-> << >>]

\* The BufReader's buffer starts at offset 0 and was filled from file f.  Only
\* create_table reads through a kept buffer, and it reads the first
\* HEADER_TABLE_RECORD_COUNT bytes: those are what the state keeps of it.
BufAt0(f) ==
    [at0 |-> TRUE,
     hdr |-> [o \in {x \in DOMAIN f.nz : x < HEADER_TABLE_RECORD_COUNT} |-> f.nz[o]]]

\* The buffer after reader.seek(SeekFrom::Start(pos)) and a successful read.
BufAfterSeek(f, pos) == IF pos = 0 THEN BufAt0(f) ELSE NoBuf

\* ------------------------------------------------------------ allocator

\* find_spare_page: the smallest page number from 0 up that is not in use.
find_spare_page(in_use) ==
    CHOOSE p \in 0..Cardinality(in_use) :
        p \notin in_use /\ \A q \in 0..(p - 1) : q \in in_use

\* The Meta-page search of create_table: from def_offset_page up, the first
\* page number not in use.
meta_page_search(in_use, def_offset_page) ==
    CHOOSE p \in def_offset_page..(def_offset_page + Cardinality(in_use)) :
        p \notin in_use /\ \A q \in def_offset_page..(p - 1) : q \in in_use

\* ------------------------------------------------------------ state

VARIABLES
    disk,            \* the database file as the operating system holds it
    wbuf,            \* Database.writer: the writes buffered and not yet written out
    reader,          \* Database.reader: its buffer, as far as it starts at offset 0
    opened,          \* a Database handle exists
    header_table,    \* Database.header_table: table name -> HeaderMeta
    in_use_pages,    \* Database.in_use_pages
    last,            \* the last call made and how it returned
    ops,             \* the operations called so far, and how calls ended
    nops,            \* number of calls made so far
    rows,            \* per table name, the rows inserted and not deleted since
    exact,           \* the names whose every call so far on the table returned Ok
    gone             \* per table name, the rows a delete matched, until written again

vars == << disk, wbuf, reader, opened, header_table, in_use_pages,
           last, ops, nops, rows, exact, gone >>

\* The part of the state a Database operation reads and changes.
Cur ==
    [disk |-> disk, wbuf |-> wbuf, reader |-> reader,
     header_table |-> header_table, in_use_pages |-> in_use_pages,
     res |-> "Ok"]

Ret(s, r) == [s EXCEPT !.res = r]

\* struct HeaderMeta.
HeaderMeta(def, meta, offsets, rec, len) ==
    [col_def_offset |-> def, meta_offset |-> meta, table_offsets |-> offsets,
     header_record_offset |-> rec, row_len |-> len]

\* ------------------------------------------------------------ create_table

RECURSIVE SumSizes(_)
SumSizes(table_def) ==
    IF table_def = << >> THEN 0
    ELSE Head(table_def).size + SumSizes(Tail(table_def))

\* The bytes create_table writes for the column definitions: per column its
\* name length, its name, its type and its size, one record after the other.
RECURSIVE DefBytes(_)
DefBytes(table_def) ==
    IF table_def = << >> THEN << >>
    ELSE LET d == Head(table_def)
         IN  << Len(d.name) >> \o d.name \o << d.column_type >> \o ToBe16(d.size)
                 \o DefBytes(Tail(table_def))

\* The bytes of the Header the record scan of create_table reads: through the
\* reader's buffer when set_reader_to_head can stay inside it (it starts at
\* offset 0), from the file otherwise.
HeaderView(s) == IF s.reader.at0 THEN s.reader ELSE BufAt0(s.disk)

\* The scan reads one byte per iteration and does not move to the next record:
\* iteration i reads byte i of the Header.  The first i whose byte is 0, or
\* HEADER_TABLE_RECORD_COUNT when there is none.
FirstFreeRecord(hdr) ==
    IF \A i \in 0..(HEADER_TABLE_RECORD_COUNT - 1) : i \in DOMAIN hdr
    THEN HEADER_TABLE_RECORD_COUNT
    ELSE CHOOSE i \in 0..(HEADER_TABLE_RECORD_COUNT - 1) :
            i \notin DOMAIN hdr /\ \A j \in 0..(i - 1) : j \in DOMAIN hdr

\* The sum of the column sizes as create_table computes it, in u16: a debug
\* build panics on overflow, a release build wraps.
RowSize(table_def, build) ==
    IF SumSizes(table_def) < U16_MOD THEN SumSizes(table_def)
    ELSE IF build = "debug" THEN -1
    ELSE SumSizes(table_def) % U16_MOD

CreateTable(s, table_name, table_def, build) ==
    LET name_len == Len(table_name)
        row_size == RowSize(table_def, build)
        view == HeaderView(s)
        header_record_offset == FirstFreeRecord(view.hdr)
        def_offset_page == find_spare_page(s.in_use_pages)
        meta_offset_page == meta_page_search(s.in_use_pages, def_offset_page)
        rest_len == PAGE_SIZE - Len(table_def) * DEF_TABLE_ROW_LEN
        defs == DefBytes(table_def)
        \* writer.seek flushes what an earlier call left buffered
        d0 == Flush(s.disk, s.wbuf)
        d1 == WriteAt(d0, header_record_offset * HEADER_TABLE_ROW_LEN,
                      << name_len >> \o table_name
                          \o ToBe(def_offset_page) \o ToBe(meta_offset_page))
        d2 == WriteAt(d1, def_offset_page * PAGE_SIZE, defs)
        d3 == ZeroFill(d2, def_offset_page * PAGE_SIZE + Len(defs), rest_len)
        d4 == ZeroFill(d3, meta_offset_page * PAGE_SIZE, PAGE_SIZE)
    IN  IF name_len > TABLE_NAME_MAX_LEN \/ name_len = 0
        THEN Ret(s, "TableNameInvalid")
        ELSE IF Len(table_def) > DEF_TABLE_RECORD_COUNT
        THEN Ret(s, "TooManyColumns")
        ELSE IF table_name \in DOMAIN s.header_table
        THEN Ret(s, "TableExists")
        ELSE IF \E i \in 1..Len(table_def) :
                    Len(table_def[i].name) > COLUMN_NAME_MAX_LEN
        THEN Ret(s, "ColumnNameTooLong")
        ELSE IF row_size < 0
        THEN Ret(s, "panic")
        ELSE IF row_size > PAGE_SIZE
        THEN Ret(s, "ColumnTooBig")
        ELSE IF header_record_offset = HEADER_TABLE_RECORD_COUNT
        THEN [Ret(s, "HeaderTableFull") EXCEPT !.reader = view]
        ELSE [disk |-> d4, wbuf |-> << >>, reader |-> view,
              header_table |->
                  (table_name :> HeaderMeta(def_offset_page, meta_offset_page,
                                            << >>, header_record_offset, row_size))
                      @@ s.header_table,
              in_use_pages |-> s.in_use_pages \cup {meta_offset_page, def_offset_page},
              res |-> "Ok"]

\* ------------------------------------------------------------ open

\* The elements of a finite set of integers in increasing order.
SortedSeq(S) ==
    LET Between(lo, hi) ==
            SelectSeq([i \in 1..(hi - lo + 1) |-> lo + i - 1], LAMBDA x : x \in S)
    IN  IF S = {} THEN << >>
        ELSE Between(CHOOSE x \in S : \A y \in S : x <= y,
                     CHOOSE x \in S : \A y \in S : y <= x)

\* String::from_utf8_lossy of the name bytes: a byte that is not ASCII is
\* replaced by U+FFFD (the names written here never hold a multi-byte sequence).
RECURSIVE Lossy(_)
Lossy(b) ==
    IF b = << >> THEN << >>
    ELSE (IF Head(b) < 128 THEN << Head(b) >> ELSE << 239, 191, 189 >>)
             \o Lossy(Tail(b))

\* a + b in i32: a debug build panics on overflow, a release build wraps.
I32Add(a, b, build) ==
    IF a >= 0 /\ b >= 0 /\ a > I32_MAX - b
    THEN [ok |-> build # "debug", v |-> (a - I32_MAX - 1) + (b - I32_MAX - 1)]
    ELSE IF a < 0 /\ b < 0 /\ a < (-I32_MAX - 1) - b
    THEN [ok |-> build # "debug", v |-> (a + I32_MAX + 1) + (b + I32_MAX + 1)]
    ELSE [ok |-> TRUE, v |-> a + b]

\* The first loop of open: HEADER_TABLE_RECORD_COUNT iterations from byte pos.
\* An iteration reads one length byte; when it is 0 it skips
\* HEADER_TABLE_ROW_LEN - 1 bytes, otherwise it reads the name and the two page
\* numbers that follow it and leaves the position right behind them.
\* EmptyRun is the number of iterations from pos on that read a 0 in a row.
EmptyRun(f, pos, left) ==
    LET live == {(o - pos) \div HEADER_TABLE_ROW_LEN :
                    o \in {x \in DOMAIN f.nz :
                              /\ x >= pos
                              /\ (x - pos) % HEADER_TABLE_ROW_LEN = 0
                              /\ (x - pos) \div HEADER_TABLE_ROW_LEN < left}}
    IN  IF live = {} THEN left ELSE CHOOSE k \in live : \A j \in live : k <= j

RECURSIVE ParseHeader(_, _, _, _)
ParseHeader(f, header_record_offset, pos, acc) ==
    IF header_record_offset = HEADER_TABLE_RECORD_COUNT \/ acc.res # "Ok" THEN acc
    ELSE IF ~CanRead(f, pos, 1) THEN [acc EXCEPT !.res = "Eof"]
    ELSE LET table_name_len == Byte(f, pos)
             run == EmptyRun(f, pos, HEADER_TABLE_RECORD_COUNT - header_record_offset)
         IN  IF table_name_len = 0
             THEN IF ~CanRead(f, pos + (run - 1) * HEADER_TABLE_ROW_LEN, 1)
                  THEN [acc EXCEPT !.res = "Eof"]
                  ELSE ParseHeader(f, header_record_offset + run,
                                   pos + run * HEADER_TABLE_ROW_LEN, acc)
             ELSE IF table_name_len > TABLE_NAME_MAX_LEN
             THEN [acc EXCEPT !.res = "InvalidData"]
             ELSE IF ~CanRead(f, pos + 1, table_name_len + 8)
             THEN [acc EXCEPT !.res = "Eof"]
             ELSE LET name == Lossy(Bytes(f, pos + 1, table_name_len))
                      col_def_offset == FromBe(Bytes(f, pos + 1 + table_name_len, 4))
                      meta_offset == FromBe(Bytes(f, pos + 5 + table_name_len, 4))
                  IN  ParseHeader(f, header_record_offset + 1,
                          pos + 9 + table_name_len,
                          [acc EXCEPT
                              !.header_table =
                                  (name :> HeaderMeta(col_def_offset, meta_offset,
                                              << >>, header_record_offset, 0))
                                      @@ acc.header_table,
                              !.in_use_pages =
                                  acc.in_use_pages \cup {col_def_offset, meta_offset}])

\* The Meta loop of open: META_TABLE_RECORD_COUNT reads of 4 bytes, one right
\* after the other, from the start of the Meta page; the non-zero values in
\* the order read.
MetaOffsets(f, meta_offset) ==
    LET base == meta_offset * PAGE_SIZE
        idx == {(o - base) \div 4 :
                  o \in {x \in DOMAIN f.nz :
                            x >= base /\ x < base + 4 * META_TABLE_RECORD_COUNT}}
        sorted == SortedSeq(idx)
    IN  [k \in 1..Len(sorted) |-> FromBe(Bytes(f, base + 4 * sorted[k], 4))]

\* The Definition loop of open: per record, skip DEF_TABLE_ROW_LEN - 2 bytes and
\* read a 2-byte size; stop at a size of 0, else add it to row_len (u16).
\* The result is the row_len, -1 for a read past the end of the file and -2
\* for the overflow panic of a debug build.
RECURSIVE DefRowLen(_, _, _, _, _)
DefRowLen(f, col_def_offset, k, row_len, build) ==
    IF k = DEF_TABLE_RECORD_COUNT THEN row_len
    ELSE IF ~CanReadPage(f, col_def_offset, k * DEF_TABLE_ROW_LEN, DEF_TABLE_ROW_LEN)
    THEN -1
    ELSE LET size == FromBe16(Bytes(f, col_def_offset * PAGE_SIZE
                                   + k * DEF_TABLE_ROW_LEN + DEF_TABLE_ROW_LEN - 2, 2))
         IN  IF size = 0 THEN row_len
             ELSE IF row_len + size >= U16_MOD /\ build = "debug" THEN -2
             ELSE DefRowLen(f, col_def_offset, k + 1,
                            (row_len + size) % U16_MOD, build)

\* The second loop of open for one table: its HeaderMeta completed, and the
\* pages the loop adds to the in-use set.
OpenTable(f, m, build) ==
    LET Result(offsets, sums, row_len) ==
            IF \E k \in 1..Len(sums) : ~sums[k].ok
            THEN [res |-> "panic", meta |-> m, pages |-> {}]
            ELSE IF row_len < 0
            THEN [res |-> IF row_len = -1 THEN "Eof" ELSE "panic",
                  meta |-> m, pages |-> {}]
            ELSE [res |-> "Ok",
                  meta |-> [m EXCEPT !.table_offsets = offsets, !.row_len = row_len],
                  pages |-> {sums[k].v : k \in 1..Len(sums)}]
        Read(offsets) ==
            Result(offsets,
                   [k \in 1..Len(offsets) |-> I32Add(offsets[k], m.meta_offset, build)],
                   DefRowLen(f, m.col_def_offset, 0, 0, build))
    IN  IF ~CanReadPage(f, m.meta_offset, 0, 4 * META_TABLE_RECORD_COUNT)
        THEN [res |-> "Eof", meta |-> m, pages |-> {}]
        ELSE Read(MetaOffsets(f, m.meta_offset))

\* Database::open on file f.  The tables are completed in the HashMap's
\* iteration order, so which table's Definition page the reader was last
\* positioned on is not determined: at0 says whether the reader's buffer ends
\* up starting at offset 0 (see OpenAt0).
Open(f, at0, build) ==
    LET closed == [disk |-> f, wbuf |-> << >>, reader |-> NoBuf,
                   header_table |-> << >>, in_use_pages |-> {}, res |-> "Ok"]
        Completed(hdr, names, tabs) ==
            IF \E n \in names : tabs[n].res # "Ok"
            THEN Ret(closed, IF \E n \in names : tabs[n].res = "Eof"
                             THEN "Eof" ELSE "panic")
            ELSE [disk |-> f, wbuf |-> << >>,
                  reader |-> IF at0 THEN BufAt0(f) ELSE NoBuf,
                  header_table |-> [n \in names |-> tabs[n].meta],
                  in_use_pages |->
                      hdr.in_use_pages \cup UNION {tabs[n].pages : n \in names},
                  res |-> "Ok"]
        Parsed(hdr) ==
            IF hdr.res # "Ok" THEN Ret(closed, hdr.res)
            ELSE Completed(hdr, DOMAIN hdr.header_table,
                     [n \in DOMAIN hdr.header_table |->
                         OpenTable(f, hdr.header_table[n], build)])
    IN  Parsed(ParseHeader(f, 0, 0,
                   [res |-> "Ok", header_table |-> << >>, in_use_pages |-> {0}]))

\* Whether open can leave the reader's buffer starting at offset 0: it does
\* when the Header held no table (the Header loop stays inside the buffer
\* filled at offset 0), or when the table completed last has Definition page 0.
OpenAt0(f) ==
    LET Parsed(hdr) ==
            IF hdr.res # "Ok" \/ DOMAIN hdr.header_table = {} THEN {TRUE}
            ELSE {hdr.header_table[n].col_def_offset = 0 :
                     n \in DOMAIN hdr.header_table}
    IN  Parsed(ParseHeader(f, 0, 0,
                   [res |-> "Ok", header_table |-> << >>, in_use_pages |-> {0}]))

\* ------------------------------------------------------------ drop

\* (meta.header_record_offset * HEADER_TABLE_ROW_LEN) as u64, the product taken
\* in u8: a debug build panics on overflow (-1), a release build wraps.
HeaderRecordByte(header_record_offset, build) ==
    IF header_record_offset * HEADER_TABLE_ROW_LEN < U8_MOD
    THEN header_record_offset * HEADER_TABLE_ROW_LEN
    ELSE IF build = "debug" THEN -1
    ELSE (header_record_offset * HEADER_TABLE_ROW_LEN) % U8_MOD

\* The pages drop releases: the Definition page, the Meta page, and
\* table_offset + meta_offset for every entry of table_offsets.
DropPages(meta, build) ==
    {meta.col_def_offset, meta.meta_offset}
        \cup {I32Add(meta.table_offsets[k], meta.meta_offset, build).v :
                 k \in 1..Len(meta.table_offsets)}

Drop(s, table_name, build) ==
    LET rest == [n \in DOMAIN s.header_table \ {table_name} |-> s.header_table[n]]
        Removed(meta, at) ==
            IF at < 0 THEN [Ret(s, "panic") EXCEPT !.header_table = rest]
            ELSE [s EXCEPT
                     !.disk = ZeroFill(Flush(s.disk, s.wbuf), at, HEADER_TABLE_ROW_LEN),
                     !.wbuf = << >>,
                     !.header_table = rest,
                     !.in_use_pages = s.in_use_pages \ DropPages(meta, build),
                     !.res = IF \E k \in 1..Len(meta.table_offsets) :
                                    ~I32Add(meta.table_offsets[k], meta.meta_offset,
                                            build).ok
                             THEN "panic" ELSE "Ok"]
        Found(meta) ==
            Removed(meta, HeaderRecordByte(meta.header_record_offset, build))
    IN  IF table_name \notin DOMAIN s.header_table THEN Ret(s, "NotFound")
        ELSE Found(s.header_table[table_name])

\* ------------------------------------------------------------ get_table_def

\* The capacity of the BufReader (BufReader::new): a read that runs past the
\* buffer refills it further on in the file.
READER_BUF_SIZE == 8192

\* The record loop of get_table_def from byte pos: a length byte, and unless it
\* is 0 the name, the type and the 2-byte size right behind it; the next
\* record is read where this one ended.
RECURSIVE ReadDefs(_, _, _, _)
ReadDefs(f, pos, k, acc) ==
    IF k = DEF_TABLE_RECORD_COUNT THEN acc
    ELSE IF ~CanRead(f, pos, 1) THEN [acc EXCEPT !.res = "Eof", !.pos = pos]
    ELSE LET len == Byte(f, pos)
         IN  IF len = 0 THEN [acc EXCEPT !.pos = pos + 1]
             ELSE IF ~CanRead(f, pos + 1, len + 3) THEN [acc EXCEPT !.res = "Eof"]
             ELSE ReadDefs(f, pos + len + 4, k + 1,
                      [acc EXCEPT
                          !.pos = pos + len + 4,
                          !.defs = Append(acc.defs,
                              [name |-> Lossy(Bytes(f, pos + 1, len)),
                               column_type |-> Byte(f, pos + 1 + len),
                               size |-> FromBe16(Bytes(f, pos + 2 + len, 2))])])

\* get_table_def: the result, the column definitions read, and the reader.
GetTableDef(s, table_name) ==
    LET Result(def_offset, r) ==
            [res |-> r.res,
             defs |-> IF r.res = "Ok" THEN r.defs ELSE << >>,
             reader |-> IF r.res = "Ok" /\ def_offset = 0 /\ r.pos <= READER_BUF_SIZE
                        THEN BufAt0(s.disk) ELSE NoBuf]
        Page(def_offset) ==
            IF ~CanReadPage(s.disk, def_offset, 0, 1)
            THEN [res |-> "Eof", defs |-> << >>, reader |-> NoBuf]
            ELSE Result(def_offset,
                        ReadDefs(s.disk, def_offset * PAGE_SIZE, 0,
                                 [res |-> "Ok", defs |-> << >>, pos |-> 0]))
    IN  IF table_name \notin DOMAIN s.header_table
        THEN [res |-> "NotFound", defs |-> << >>, reader |-> s.reader]
        ELSE Page(s.header_table[table_name].col_def_offset)

\* ------------------------------------------------------------ insert

Min(a, b) == IF a <= b THEN a ELSE b

\* Number of iterations of a slot loop "while cursor < PAGE_SIZE" whose cursor
\* advances by row_len > 0.
SlotCount(row_len) == (PAGE_SIZE + row_len - 1) \div row_len

\* The slots of width row_len from byte base, among the first n, that hold a
\* non-zero byte.
NonZeroSlots(f, base, row_len, n) ==
    {(o - base) \div row_len :
        o \in {x \in DOMAIN f.nz : x >= base /\ x < base + n * row_len}}

\* The slot loop of insert from byte offset start (reader.seek(table_offset)):
\* "write" with the slot to write, "Eof" when a read runs past the end of the
\* file first, "full" when no slot read is all zero.
InsertScan(f, start, row_len) ==
    LET Found(n, nread, nzs) ==
            LET free == {k \in 0..Min(nread - 1, Cardinality(nzs)) : k \notin nzs}
            IN  IF free # {}
                THEN [kind |-> "write",
                      slot |-> CHOOSE k \in free : \A j \in free : k <= j]
                ELSE IF nread < n THEN [kind |-> "Eof", slot |-> 0]
                ELSE [kind |-> "full", slot |-> 0]
        Read(n, nread) == Found(n, nread, NonZeroSlots(f, start, row_len, nread))
    IN  IF start < 0 THEN [kind |-> "Eof", slot |-> 0]
        ELSE IF row_len = 0 THEN [kind |-> "write", slot |-> 0]
        ELSE IF start > f.len THEN [kind |-> "Eof", slot |-> 0]
        ELSE Read(SlotCount(row_len),
                  Min(SlotCount(row_len), (f.len - start) \div row_len))

\* The Meta-record loop of insert from record record_offset on.
RECURSIVE InsertFrom(_, _, _, _)
InsertFrom(s, meta, data, record_offset) ==
    LET at == meta.meta_offset * PAGE_SIZE + record_offset * META_TABLE_ROW_LEN
        NewPage(new_table) ==
            [s EXCEPT
                !.disk = ZeroFill(
                             WriteAt(WriteAt(Flush(s.disk, s.wbuf), at, ToBe(new_table)),
                                     new_table * PAGE_SIZE, data),
                             new_table * PAGE_SIZE + Len(data), PAGE_SIZE - Len(data)),
                !.wbuf = << >>,
                !.reader = BufAfterSeek(s.disk, at),
                !.in_use_pages = s.in_use_pages \cup {new_table},
                !.res = "Ok"]
        Scanned(table_offset, scan) ==
            IF scan.kind = "write"
            THEN [s EXCEPT
                     !.disk = WriteAt(Flush(s.disk, s.wbuf),
                                  table_offset + scan.slot * Len(data), data),
                     !.wbuf = << >>, !.reader = NoBuf, !.res = "Ok"]
            ELSE IF scan.kind = "Eof"
            THEN [Ret(s, "Eof") EXCEPT !.reader = NoBuf]
            ELSE InsertFrom(s, meta, data, record_offset + 1)
        Record(table_offset) ==
            IF table_offset = 0
            THEN NewPage(find_spare_page(s.in_use_pages))
            ELSE Scanned(table_offset, InsertScan(s.disk, table_offset, Len(data)))
    IN  IF record_offset = META_TABLE_RECORD_COUNT
        THEN [Ret(s, "StorageFull") EXCEPT !.reader = NoBuf]
        ELSE IF ~CanReadPage(s.disk, meta.meta_offset,
                             record_offset * META_TABLE_ROW_LEN, 4)
        THEN [Ret(s, "Eof") EXCEPT !.reader = NoBuf]
        ELSE Record(FromBe(Bytes(s.disk, at, 4)))

\* insert without its test of the length of data.
InsertAnyLen(s, table_name, data) ==
    IF table_name \notin DOMAIN s.header_table THEN Ret(s, "NotFound")
    ELSE InsertFrom(s, s.header_table[table_name], data, 0)

Insert(s, table_name, data) ==
    IF table_name \notin DOMAIN s.header_table THEN Ret(s, "NotFound")
    ELSE IF Len(data) # s.header_table[table_name].row_len THEN Ret(s, "DataLen")
    ELSE InsertFrom(s, s.header_table[table_name], data, 0)

\* ------------------------------------------------------------ conditions

\* struct Condition as lib.rs uses it: a byte range lo..hi of the row and the
\* bytes eq_to it must equal.
Cond(lo, hi, eq_to) == [lo |-> lo, hi |-> hi, eq_to |-> eq_to]

\* conditions.iter().all(|c| &buf[c.range.clone()] == c.eq_to.as_ref()):
\* "yes", "no", or "panic" when a condition that is reached has a range that
\* is not a range of buf (the slice index panics).
RECURSIVE Matches(_, _)
Matches(buf, conditions) ==
    IF conditions = << >> THEN "yes"
    ELSE LET c == Head(conditions)
         IN  IF c.lo > c.hi \/ c.hi > Len(buf) THEN "panic"
             ELSE IF SubSeq(buf, c.lo + 1, c.hi) # c.eq_to THEN "no"
             ELSE Matches(buf, Tail(conditions))

ZeroRow(row_len) == [i \in 1..row_len |-> 0]

\* The slot loop of select, update and delete over the data page read at byte
\* base, as far as it gets: the loop reads SlotCount(row_len) slots unless a
\* read runs past the end of the file ("Eof") or a condition panics first.
\*   hit   the non-zero slots that match, zhit the all-zero slots that match,
\*   kept  the non-zero slots that do not match.
PageScan(f, base, row_len, conditions) ==
    LET Result(n, nread, nzs, mz, m, stop) ==
            [res |-> IF stop < nread THEN "panic"
                     ELSE IF nread < n THEN "Eof" ELSE "Ok",
             hit |-> {k \in nzs : k < stop /\ m[k] = "yes"},
             zhit |-> IF mz = "yes" THEN (0..(stop - 1)) \ nzs ELSE {},
             kept |-> {k \in nzs : k < stop /\ m[k] = "no"}]
        Stop(nread, panics) ==
            IF panics = {} THEN nread
            ELSE CHOOSE k \in panics : \A j \in panics : k <= j
        Matched(n, nread, nzs, mz, m) ==
            Result(n, nread, nzs, mz, m,
                   Stop(nread, {k \in nzs : m[k] = "panic"}
                                   \cup (IF mz = "panic" THEN (0..(nread - 1)) \ nzs
                                         ELSE {})))
        Slots(n, nread, nzs) ==
            Matched(n, nread, nzs, Matches(ZeroRow(row_len), conditions),
                    [k \in nzs |->
                        Matches(Bytes(f, base + k * row_len, row_len), conditions)])
        Read(n, nread) == Slots(n, nread, NonZeroSlots(f, base, row_len, nread))
    IN  Read(SlotCount(row_len),
             IF base > f.len THEN 0
             ELSE Min(SlotCount(row_len), (f.len - base) \div row_len))

\* A Meta record's data page can be sought and read at all.
PageReadable(f, table_offset) ==
    table_offset >= 0 /\ table_offset <= f.len \div PAGE_SIZE

\* The Meta-record loops of select, update and delete read record after
\* record (4 bytes at meta_offset * PAGE_SIZE + record * META_TABLE_ROW_LEN) and
\* go on to the next one when the value is 0.  From record `from` on:
\*   "Eof"   a record cannot be read (rec: the first such record);
\*   "page"  record rec is the first with a non-zero value;
\*   "end"   all records up to the last were read and are 0.
NextRecord(f, meta_offset, from) ==
    LET base == meta_offset * PAGE_SIZE
        readable == IF meta_offset < 0 \/ meta_offset > f.len \div PAGE_SIZE
                       \/ f.len - base < 4
                    THEN 0
                    ELSE Min(META_TABLE_RECORD_COUNT,
                             (f.len - base - 4) \div META_TABLE_ROW_LEN + 1)
        live == {(o - base) \div META_TABLE_ROW_LEN :
                    o \in {x \in DOMAIN f.nz :
                              /\ x >= base + from * META_TABLE_ROW_LEN
                              /\ x < base + readable * META_TABLE_ROW_LEN
                              /\ (x - base) % META_TABLE_ROW_LEN < 4}}
    IN  IF live # {}
        THEN [kind |-> "page", rec |-> CHOOSE k \in live : \A j \in live : k <= j]
        ELSE IF readable < META_TABLE_RECORD_COUNT
        THEN [kind |-> "Eof", rec |-> Max(from, readable)]
        ELSE [kind |-> "end", rec |-> META_TABLE_RECORD_COUNT]

\* ------------------------------------------------------------ select

\* The Meta-record loop of select from record record_number on.  The result
\* list is kept as the non-zero rows in the order pushed (rows) and the number
\* of all-zero rows pushed (zeros).
RECURSIVE SelectFrom(_, _, _, _, _)
SelectFrom(f, meta, conditions, record_number, acc) ==
    LET failed(r) == [res |-> r, rows |-> << >>, zeros |-> 0]
        Pushed(base, rec, scan, hits) ==
            IF scan.res # "Ok" THEN failed(scan.res)
            ELSE SelectFrom(f, meta, conditions, rec + 1,
                     [res |-> "Ok",
                      rows |-> acc.rows \o
                          [i \in 1..Len(hits) |->
                              Bytes(f, base + hits[i] * meta.row_len, meta.row_len)],
                      zeros |-> acc.zeros + Cardinality(scan.zhit)])
        Scanned(base, rec, scan) == Pushed(base, rec, scan, SortedSeq(scan.hit))
        Page(rec, table_offset) ==
            IF table_offset < 0 THEN failed("Eof")
            ELSE IF meta.row_len = 0
            THEN failed(IF Matches(<< >>, conditions) = "panic"
                        THEN "panic" ELSE "diverge")
            ELSE IF ~PageReadable(f, table_offset) THEN failed("Eof")
            ELSE Scanned(table_offset * PAGE_SIZE, rec,
                         PageScan(f, table_offset * PAGE_SIZE, meta.row_len, conditions))
        Record(next) ==
            IF next.kind = "end" THEN acc
            ELSE IF next.kind = "Eof" THEN failed("Eof")
            ELSE Page(next.rec,
                      FromBe(Bytes(f, meta.meta_offset * PAGE_SIZE
                                       + next.rec * META_TABLE_ROW_LEN, 4)))
    IN  Record(NextRecord(f, meta.meta_offset, record_number))

\* select: res, and when it is "Ok" the rows returned.  "diverge": the call
\* never returns (the slot loop's cursor advances by row_len = 0).
Select(s, table_name, conditions) ==
    IF table_name \notin DOMAIN s.header_table
    THEN [res |-> "NotFound", rows |-> << >>, zeros |-> 0]
    ELSE SelectFrom(s.disk, s.header_table[table_name], conditions, 0,
                    [res |-> "Ok", rows |-> << >>, zeros |-> 0])

\* ------------------------------------------------------------ update

\* The effect on one row of the writes "for field in new_value: seek(start +
\* field.range.start); write_all(field.eq_to)": row offset -> byte written last.
RECURSIVE RowPatch(_)
RowPatch(new_value) ==
    IF new_value = << >> THEN << >>
    ELSE LET field == new_value[Len(new_value)]
             before == RowPatch(SubSeq(new_value, 1, Len(new_value) - 1))
             span == field.lo..(field.lo + Len(field.eq_to) - 1)
         IN  [j \in DOMAIN before \cup span |->
                 IF j \in span THEN field.eq_to[j - field.lo + 1] ELSE before[j]]

\* The file after the row patch was written at each of the given slots (from
\* byte base, width row_len), slot by slot in ascending order: a byte that the
\* writes of several slots cover (a field reaching past its row) keeps what the
\* highest of them wrote.
ApplyPatch(f, base, row_len, slots, patch) ==
    LET span == CHOOSE j \in DOMAIN patch : \A i \in DOMAIN patch : i <= j
        touched == {base + k * row_len + j : k \in slots, j \in DOMAIN patch}
        writers(o) == {k \in Max(0, (o - base - span) \div row_len)
                                 ..((o - base) \div row_len) :
                          k \in slots /\ (o - base - k * row_len) \in DOMAIN patch}
        owner(o) == IF span < row_len THEN (o - base) \div row_len
                    ELSE CHOOSE k \in writers(o) : \A j \in writers(o) : j <= k
        value(o) == patch[o - base - owner(o) * row_len]
        new == {o \in touched : value(o) # 0}
        old == DOMAIN f.nz \ touched
        top == base + (CHOOSE k \in slots : \A j \in slots : j <= k) * row_len + span
    IN  IF slots = {} \/ DOMAIN patch = {} THEN f
        ELSE [len |-> Max(f.len, top + 1),
              nz |-> [o \in old \cup new |->
                         IF o \in old THEN f.nz[o] ELSE value(o)]]

\* The writes of update for one matched slot, in the order made.
FieldWrites(base, row_len, slot, new_value) ==
    [i \in 1..Len(new_value) |->
        WData(base + slot * row_len + new_value[i].lo, new_value[i].eq_to)]

\* The file and the writer's buffer after update went through the matched
\* slots of one page.  Every writer.seek writes out what was buffered, so all
\* writes but the last have reached the file and the last one is buffered.
PageWrites(f, pend, base, row_len, matched, new_value) ==
    LET Written(lastslot, ws) ==
            [f |-> Flush(ApplyPatch(Flush(f, pend), base, row_len,
                                    matched \ {lastslot}, RowPatch(new_value)),
                         SubSeq(ws, 1, Len(ws) - 1)),
             pend |-> << ws[Len(ws)] >>]
        Last(lastslot) ==
            Written(lastslot, FieldWrites(base, row_len, lastslot, new_value))
    IN  IF matched = {} \/ new_value = << >> THEN [f |-> f, pend |-> pend]
        ELSE Last(CHOOSE k \in matched : \A j \in matched : j <= k)

\* The Meta-record loop of update from record record_number on; st holds the
\* file (f), the writer's buffer (pend) and the count so far (count).
RECURSIVE UpdateFrom(_, _, _, _, _)
UpdateFrom(st, meta, conditions, new_value, record_number) ==
    LET Written(rec, scan, matched, w) ==
            IF scan.res # "Ok"
            THEN [res |-> scan.res, f |-> w.f, pend |-> w.pend,
                  count |-> st.count + Cardinality(matched)]
            ELSE UpdateFrom([res |-> "Ok", f |-> w.f, pend |-> w.pend,
                             count |-> st.count + Cardinality(matched)],
                            meta, conditions, new_value, rec + 1)
        Matched(base, rec, scan, matched) ==
            Written(rec, scan, matched,
                    PageWrites(st.f, st.pend, base, meta.row_len, matched, new_value))
        Scanned(base, rec, scan) == Matched(base, rec, scan, scan.hit \cup scan.zhit)
        NoRow(base, m) ==
            IF m = "panic" THEN [st EXCEPT !.res = "panic"]
            ELSE IF m = "no" THEN [st EXCEPT !.res = "diverge"]
            ELSE \* the same writes are made over and over
                 [st EXCEPT !.res = "diverge", !.pend = << >>,
                     !.f = Flush(Flush(st.f, st.pend),
                                 FieldWrites(base, 0, 0, new_value))]
        Page(rec, table_offset) ==
            IF table_offset < 0 THEN [st EXCEPT !.res = "Eof"]
            ELSE IF meta.row_len = 0
            THEN NoRow(table_offset * PAGE_SIZE, Matches(<< >>, conditions))
            ELSE IF ~PageReadable(st.f, table_offset) THEN [st EXCEPT !.res = "Eof"]
            ELSE Scanned(table_offset * PAGE_SIZE, rec,
                         PageScan(st.f, table_offset * PAGE_SIZE, meta.row_len,
                                  conditions))
        Record(next) ==
            IF next.kind = "end"
            THEN [res |-> "Ok", f |-> Flush(st.f, st.pend), pend |-> << >>,
                  count |-> st.count]
            ELSE IF next.kind = "Eof" THEN [st EXCEPT !.res = "Eof"]
            ELSE Page(next.rec,
                      FromBe(Bytes(st.f, meta.meta_offset * PAGE_SIZE
                                          + next.rec * META_TABLE_ROW_LEN, 4)))
    IN  Record(NextRecord(st.f, meta.meta_offset, record_number))

\* update: the state after it and the count it returns.
Update(s, table_name, conditions, new_value) ==
    LET Result(r) ==
            [s EXCEPT !.disk = r.f, !.wbuf = r.pend, !.reader = NoBuf, !.res = r.res]
                @@ [count |-> r.count]
    IN  IF table_name \notin DOMAIN s.header_table
        THEN [s EXCEPT !.res = "NotFound"] @@ [count |-> 0]
        ELSE Result(UpdateFrom([res |-> "Ok", f |-> s.disk, pend |-> s.wbuf,
                                count |-> 0],
                               s.header_table[table_name], conditions, new_value, 0))

\* ------------------------------------------------------------ delete

\* The Meta-record loop of delete from record record_number on; st holds the
\* file (f), the writer's buffer (pend), the in-use set and the count so far.
RECURSIVE DeleteFrom(_, _, _, _)
DeleteFrom(st, meta, conditions, record_number) ==
    LET Counted(at, rec, table_offset, scan, counted) ==
            IF scan.res # "Ok" THEN [counted EXCEPT !.res = scan.res]
            ELSE IF scan.kept = {}
            THEN DeleteFrom(
                     [counted EXCEPT
                         !.f = Flush(st.f, st.pend),
                         !.pend = << WZeros(at, META_TABLE_ROW_LEN) >>,
                         !.in_use = st.in_use \ {table_offset}],
                     meta, conditions, rec + 1)
            ELSE DeleteFrom(counted, meta, conditions, rec + 1)
        Scanned(at, rec, table_offset, scan) ==
            Counted(at, rec, table_offset, scan,
                    [st EXCEPT !.count = st.count + Cardinality(scan.hit)
                                             + Cardinality(scan.zhit)])
        Page(at, rec, table_offset) ==
            IF table_offset < 0 THEN [st EXCEPT !.res = "Eof"]
            ELSE IF meta.row_len = 0
            THEN [st EXCEPT !.res = IF Matches(<< >>, conditions) = "panic"
                                    THEN "panic" ELSE "diverge"]
            ELSE IF ~PageReadable(st.f, table_offset) THEN [st EXCEPT !.res = "Eof"]
            ELSE Scanned(at, rec, table_offset,
                         PageScan(st.f, table_offset * PAGE_SIZE, meta.row_len,
                                  conditions))
        At(at, rec) == Page(at, rec, FromBe(Bytes(st.f, at, 4)))
        Record(next) ==
            IF next.kind = "end"
            THEN [st EXCEPT !.f = Flush(st.f, st.pend), !.pend = << >>]
            ELSE IF next.kind = "Eof" THEN [st EXCEPT !.res = "Eof"]
            ELSE At(meta.meta_offset * PAGE_SIZE + next.rec * META_TABLE_ROW_LEN,
                    next.rec)
    IN  Record(NextRecord(st.f, meta.meta_offset, record_number))

\* delete: the state after it and the count it returns.
Delete(s, table_name, conditions) ==
    LET Result(r) ==
            [s EXCEPT !.disk = r.f, !.wbuf = r.pend, !.reader = NoBuf,
                      !.in_use_pages = r.in_use, !.res = r.res]
                @@ [count |-> r.count]
    IN  IF table_name \notin DOMAIN s.header_table
        THEN [s EXCEPT !.res = "NotFound"] @@ [count |-> 0]
        ELSE Result(DeleteFrom([res |-> "Ok", f |-> s.disk, pend |-> s.wbuf,
                                in_use |-> s.in_use_pages, count |-> 0],
                               s.header_table[table_name], conditions, 0))

\* ------------------------------------------------------------ the calls made

\* Table names "t" and "u".
Names == { << 116 >>, << 117 >> }

\* Column lists: one 4-byte column "a"; a 1-byte column "a" and a 2-byte "b".
TableDefs ==
    { << [name |-> << 97 >>, column_type |-> 1, size |-> 4] >>,
      << [name |-> << 97 >>, column_type |-> 1, size |-> 1],
         [name |-> << 98 >>, column_type |-> 1, size |-> 2] >> }

\* Rows handed to insert.
Rows == { << 0, 0, 0, 1 >>, << 1, 0, 0, 0 >>, << 0, 0, 1 >> }

\* Condition lists: none, or one condition on the whole of a 4-byte row.
CondLists ==
    { << >>, << Cond(0, 4, << 0, 0, 0, 1 >>) >>, << Cond(0, 4, << 1, 0, 0, 0 >>) >>,
      << Cond(0, 4, << 0, 0, 0, 0 >>) >> }

\* new_value lists of update.
NewValues == { << Cond(0, 4, << 0, 0, 0, 2 >>) >> }

\* Overflow checks are compiled in (debug) or not (release).
Builds == { "debug", "release" }

Range(q) == { q[i] : i \in 1..Len(q) }

\* The row after update's new_value was written into it.
Patched(row, new_value) ==
    LET patch == RowPatch(new_value)
    IN  [i \in 1..Len(row) |-> IF (i - 1) \in DOMAIN patch THEN patch[i - 1] ELSE row[i]]

\* What a call adds to ops: its operation, "failed" when it returned an error
\* and "aborted" when it did not return.
Called(op, res) ==
    {op} \cup (IF res \in { "panic", "diverge" } THEN { "aborted" }
               ELSE IF res # "Ok" THEN { "failed" } ELSE {})

\* A call returned r: a panic unwinds and drops the handle (the BufWriter
\* writes its buffer out when dropped); a call that never returns ends with the
\* process killed, and what the writer had buffered is lost.  An open that
\* fails gives no handle.
\* call is what last records of the call.
ReturnedFrom(r, call) ==
    LET dead == r.res \in { "panic", "diverge" } \/ (call.op = "open" /\ r.res # "Ok")
    IN  /\ disk' = IF r.res = "panic" THEN Flush(r.disk, r.wbuf) ELSE r.disk
        /\ wbuf' = IF dead THEN << >> ELSE r.wbuf
        /\ reader' = IF dead THEN NoBuf ELSE r.reader
        /\ opened' = ~dead
        /\ header_table' = IF dead THEN << >> ELSE r.header_table
        /\ in_use_pages' = IF dead THEN {} ELSE r.in_use_pages
        /\ last' = call
        /\ ops' = ops \cup Called(call.op, r.res)
        /\ nops' = nops + 1

Returned(r, op, table_name) ==
    ReturnedFrom(r, [op |-> op, res |-> r.res, name |-> table_name])

\* create_file, then open.
Init ==
    /\ disk = NewFile
    /\ wbuf = << >>
    /\ reader = BufAt0(NewFile)
    /\ opened = TRUE
    /\ header_table = << >>
    /\ in_use_pages = {0}
    /\ last = [op |-> "open", res |-> "Ok", name |-> << >>]
    /\ ops = {}
    /\ nops = 0
    /\ rows = << >>
    /\ exact = {}
    /\ gone = << >>

\* create_table(table_name, table_def) is called.
CreateCall(table_name, table_def, build) ==
    \E r \in {CreateTable(Cur, table_name, table_def, build)} :
        /\ ReturnedFrom(r, [op |-> "create_table", res |-> r.res, name |-> table_name,
                            sizes |-> SumSizes(table_def)])
        /\ rows' = IF r.res = "Ok" THEN (table_name :> << >>) @@ rows ELSE rows
        /\ gone' = IF r.res = "Ok" THEN (table_name :> {}) @@ gone ELSE gone
        /\ exact' = IF r.res = "Ok" THEN exact \cup {table_name} ELSE exact

DoCreateTable ==
    /\ opened /\ nops < MaxOps
    /\ \E table_name \in Names, table_def \in TableDefs, build \in Builds :
          CreateCall(table_name, table_def, build)

\* drop(table_name) is called.
DropCall(table_name, build) ==
    \E r \in {Drop(Cur, table_name, build)} :
        LET others(g) == [n \in DOMAIN g \ {table_name} |-> g[n]]
        IN  /\ Returned(r, "drop", table_name)
            /\ rows' = IF r.res = "Ok" THEN others(rows) ELSE rows
            /\ gone' = IF r.res = "Ok" THEN others(gone) ELSE gone
            /\ exact' = exact \ {table_name}

DoDrop ==
    /\ opened /\ nops < MaxOps
    /\ \E table_name \in Names, build \in Builds : DropCall(table_name, build)

DoGetTableDef ==
    /\ opened /\ nops < MaxOps
    /\ \E table_name \in Names :
          \E r \in {GetTableDef(Cur, table_name)} :
              /\ Returned([Cur EXCEPT !.reader = r.reader, !.res = r.res],
                          "get_table_def", table_name)
              /\ UNCHANGED << rows, exact, gone >>

\* insert(table_name, data) is called.
InsertCall(table_name, data) ==
    \E r \in {Insert(Cur, table_name, data)} :
        LET ok == r.res = "Ok" /\ table_name \in DOMAIN rows
        IN  /\ ReturnedFrom(r, [op |-> "insert", res |-> r.res, name |-> table_name,
                                len |-> Len(data)])
            /\ rows' = IF ok THEN [rows EXCEPT ![table_name] = Append(@, data)]
                       ELSE rows
            /\ gone' = IF ok THEN [gone EXCEPT ![table_name] = @ \ {data}] ELSE gone
            /\ exact' = IF r.res \in {"Ok", "NotFound", "DataLen"} THEN exact
                        ELSE exact \ {table_name}

DoInsert ==
    /\ opened /\ nops < MaxOps
    /\ \E table_name \in Names, data \in Rows : InsertCall(table_name, data)

\* select(table_name, conditions) is called.
SelectCall(table_name, conditions) ==
    \E r \in {Select(Cur, table_name, conditions)} :
        /\ Returned([Cur EXCEPT
                        !.reader = IF r.res = "NotFound" THEN @ ELSE NoBuf,
                        !.res = r.res],
                    "select", table_name)
        /\ UNCHANGED << rows, exact, gone >>

DoSelect ==
    /\ opened /\ nops < MaxOps
    /\ \E table_name \in Names, conditions \in CondLists :
          SelectCall(table_name, conditions)

\* update(table_name, conditions, new_value) is called.
UpdateCall(table_name, conditions, new_value) ==
    \E r \in {Update(Cur, table_name, conditions, new_value)} :
        LET tracked == table_name \in DOMAIN rows /\ r.res # "NotFound"
        IN  /\ Returned(r, "update", table_name)
            /\ rows' = IF tracked /\ r.res = "Ok"
                       THEN [rows EXCEPT ![table_name] =
                                [i \in 1..Len(@) |->
                                    IF Matches(@[i], conditions) = "yes"
                                    THEN Patched(@[i], new_value) ELSE @[i]]]
                       ELSE rows
            /\ gone' = IF tracked THEN [gone EXCEPT ![table_name] = {}] ELSE gone
            /\ exact' = IF r.res \in {"Ok", "NotFound"} THEN exact
                        ELSE exact \ {table_name}

DoUpdate ==
    /\ opened /\ nops < MaxOps
    /\ \E table_name \in Names, conditions \in CondLists, new_value \in NewValues :
          UpdateCall(table_name, conditions, new_value)

\* delete(table_name, conditions) is called.
DeleteCall(table_name, conditions) ==
    \E r \in {Delete(Cur, table_name, conditions)} :
        LET tracked == table_name \in DOMAIN rows /\ r.res = "Ok"
            matched(row) == Matches(row, conditions) = "yes"
        IN  /\ Returned(r, "delete", table_name)
            /\ rows' = IF tracked
                       THEN [rows EXCEPT ![table_name] =
                                SelectSeq(@, LAMBDA row : ~matched(row))]
                       ELSE rows
            /\ gone' = IF tracked
                       THEN [gone EXCEPT ![table_name] =
                                @ \cup {row \in Range(rows[table_name]) : matched(row)}]
                       ELSE gone
            /\ exact' = IF r.res \in {"Ok", "NotFound"} THEN exact
                        ELSE exact \ {table_name}

DoDelete ==
    /\ opened /\ nops < MaxOps
    /\ \E table_name \in Names, conditions \in CondLists :
          DeleteCall(table_name, conditions)

\* open, after close when there is a handle (the handle is dropped and the
\* writer writes its buffer out).
OpenCall ==
    \E f \in {IF opened THEN Flush(disk, wbuf) ELSE disk} :
        \E at0 \in OpenAt0(f), build \in Builds :
            /\ Returned(Open(f, at0, build), "open", << >>)
            /\ UNCHANGED << rows, exact, gone >>

DoOpen == nops < MaxOps /\ OpenCall

Next ==
    \/ DoCreateTable
    \/ DoDrop
    \/ DoGetTableDef
    \/ DoInsert
    \/ DoSelect
    \/ DoUpdate
    \/ DoDelete
    \/ DoOpen

Spec == Init /\ [][Next]_vars

\* ------------------------------------------------------------ header capacity

\* The k-th of CapCalls distinct two-letter table names.
CapName(k) == << 65 + (k \div 26), 97 + (k % 26) >>

\* The column list of these tables: one 4-byte column "a".
CapDef == << [name |-> << 97 >>, column_type |-> 1, size |-> 4] >>

\* On the fresh file, one create_table after the other, each with a new name.
DoCreateNext ==
    /\ opened /\ nops < CapCalls
    /\ \E build \in Builds : CreateCall(CapName(nops), CapDef, build)

NextCap == DoCreateNext

SpecCap == Init /\ [][NextCap]_vars

\* ------------------------------------------------------------ wide rows

\* Number of calls of the wide-row scenario.
AllocOps == 7

\* Table names "abcdefgh" and "u".
AllocNames == { << 97, 98, 99, 100, 101, 102, 103, 104 >>, << 117 >> }

\* The column list of table "u" (one 3000-byte column) and of the other table
\* (one 4-byte column).
AllocDef(table_name) ==
    << [name |-> << 97 >>, column_type |-> 1,
        size |-> IF table_name = << 117 >> THEN 3000 ELSE 4] >>

\* A 3000-byte row: bytes 1093..1096 are 0xFF, the others 0.
AllocRow == [i \in 1..3000 |-> IF i \in 1094..1097 THEN 255 ELSE 0]

AllocCreate ==
    /\ opened /\ nops < AllocOps
    /\ \E table_name \in AllocNames, build \in Builds :
          CreateCall(table_name, AllocDef(table_name), build)

AllocInsert ==
    /\ opened /\ nops < AllocOps
    /\ \E table_name \in AllocNames : InsertCall(table_name, AllocRow)

AllocDrop ==
    /\ opened /\ nops < AllocOps
    /\ \E table_name \in AllocNames, build \in Builds : DropCall(table_name, build)

AllocOpen == nops < AllocOps /\ OpenCall

NextAlloc == AllocCreate \/ AllocInsert \/ AllocDrop \/ AllocOpen

SpecAlloc == Init /\ [][NextAlloc]_vars

\* ------------------------------------------------------------ column sizes

\* Number of calls of the column-size scenario.
DefsOps == 3

\* A column list with the given sizes.
Columns(sizes) ==
    [i \in 1..Len(sizes) |-> [name |-> << 96 + i >>, column_type |-> 1, size |-> sizes[i]]]

\* Column lists whose sizes sum to 0, to at most PAGE_SIZE, to more than
\* PAGE_SIZE, and to more than a u16 holds.
SizeDefs ==
    { Columns(<< >>), Columns(<< 0 >>), Columns(<< 4 >>), Columns(<< 4096 >>),
      Columns(<< 5000 >>), Columns(<< 65535, 1 >>), Columns(<< 65535, 4097 >>) }

\* Rows handed to insert: the empty row and a 4-byte row.
SizeRows == { << >>, << 0, 0, 0, 1 >> }

DefsCreate ==
    /\ opened /\ nops < DefsOps
    /\ \E table_name \in Names, table_def \in SizeDefs, build \in Builds :
          CreateCall(table_name, table_def, build)

DefsInsert ==
    /\ opened /\ nops < DefsOps
    /\ \E table_name \in Names, data \in SizeRows : InsertCall(table_name, data)

DefsSelect ==
    /\ opened /\ nops < DefsOps
    /\ \E table_name \in Names : SelectCall(table_name, << >>)

DefsUpdate ==
    /\ opened /\ nops < DefsOps
    /\ \E table_name \in Names, new_value \in NewValues :
          UpdateCall(table_name, << >>, new_value)

DefsDelete ==
    /\ opened /\ nops < DefsOps
    /\ \E table_name \in Names : DeleteCall(table_name, << >>)

DefsOpen == nops < DefsOps /\ OpenCall

NextDefs ==
    DefsCreate \/ DefsInsert \/ DefsSelect \/ DefsUpdate \/ DefsDelete \/ DefsOpen

SpecDefs == Init /\ [][NextDefs]_vars

\* ------------------------------------------------------------ properties

\* The file with the writes the writer still holds written out.
FileNow == Flush(disk, wbuf)

\* The byte offsets at which files f and g differ.
Changed(f, g) == {o \in DOMAIN f.nz \cup DOMAIN g.nz : Byte(f, o) # Byte(g, o)}

\* The value of the first Meta record of a table.
FirstRecord(f, meta) == FromBe(Bytes(f, meta.meta_offset * PAGE_SIZE, 4))

\* The data pages of a table as select, update and delete resolve them on file
\* f: the non-zero values of its Meta records, each an absolute page number.
DataPages(f, meta) ==
    LET base == meta.meta_offset * PAGE_SIZE
        live == {(o - base) \div META_TABLE_ROW_LEN :
                    o \in {x \in DOMAIN f.nz :
                              /\ x >= base /\ x < base + PAGE_SIZE
                              /\ (x - base) % META_TABLE_ROW_LEN < 4}}
    IN  {FromBe(Bytes(f, base + rec * META_TABLE_ROW_LEN, 4)) : rec \in live}

\* The pages the tables of a catalog own on file f, the Header page included.
OwnedPages(f, catalog) ==
    {0} \cup UNION {{catalog[n].col_def_offset, catalog[n].meta_offset}
                        \cup DataPages(f, catalog[n]) : n \in DOMAIN catalog}

\* A list of conditions or new_fields entries has one whose range, or whose
\* bytes written from the start of the range, are not within a row of row_len
\* bytes.
OutOfRow(fields, row_len) ==
    \E i \in 1..Len(fields) :
        \/ fields[i].lo > fields[i].hi
        \/ fields[i].hi > row_len
        \/ fields[i].lo + Len(fields[i].eq_to) > row_len

\* A call ended by returning an error value.
IsError(res) == res \notin {"Ok", "panic", "diverge"}

\* The pages one table owns on file f: its Definition page, its Meta page and
\* the data pages its Meta records refer to.
TablePages(f, meta) == {meta.col_def_offset, meta.meta_offset} \cup DataPages(f, meta)

\* The tables whose stored rows are known: created, in the catalog, and every
\* call on them returned.
Known == (DOMAIN rows \cap DOMAIN header_table) \cap exact

\* The stored rows of table name that satisfy every condition.
Satisfying(name, conditions) ==
    {i \in 1..Len(rows[name]) : Matches(rows[name][i], conditions) = "yes"}

\* C1: for N >= 1 distinct non-zero rows inserted into a freshly created
\* table, select with an empty condition list returns exactly N rows, and they
\* are the inserted rows.
C1_InsertSelectRoundTrip ==
    (opened /\ ops = { "create_table", "insert" } /\ Cardinality(DOMAIN rows) = 1) =>
        \A name \in DOMAIN rows :
            Cardinality(Range(rows[name])) = Len(rows[name]) =>
                \E r \in {Select(Cur, name, << >>)} :
                    /\ r.res = "Ok"
                    /\ Len(r.rows) + r.zeros = Len(rows[name])
                    /\ Range(r.rows) = Range(rows[name])

\* C2: after successful create_table calls on a fresh file, close and open
\* give a catalog with the same table names, and for each table the same
\* get_table_def result and the same row_len as before the close.
C2_SchemaRoundTrip ==
    (opened /\ ops = { "create_table" }) =>
        \A at0 \in OpenAt0(Flush(disk, wbuf)), build \in Builds :
            \E r \in {Open(Flush(disk, wbuf), at0, build)} :
                /\ r.res = "Ok"
                /\ DOMAIN r.header_table = DOMAIN header_table
                /\ \A n \in DOMAIN header_table \cap DOMAIN r.header_table :
                      /\ r.header_table[n].row_len = header_table[n].row_len
                      /\ GetTableDef(r, n).res = GetTableDef(Cur, n).res
                      /\ GetTableDef(r, n).defs = GetTableDef(Cur, n).defs

\* C3: a row that matched the conditions of a delete that returned is not
\* returned by any later select on the table (until it is written again).
C3_DeletedRowsStayHidden ==
    opened =>
        \A name \in DOMAIN gone \cap DOMAIN header_table :
            gone[name] # {} =>
                \A conditions \in CondLists :
                    \E r \in {Select(Cur, name, conditions)} :
                        r.res = "Ok" => gone[name] \cap Range(r.rows) = {}

\* C4: after create_table, insert, delete, drop and close+open calls, every
\* data page a non-zero Meta record of a catalog table refers to is in the
\* in-use set.
C4_DataPagesInUse ==
    (opened /\ ops \subseteq { "create_table", "insert", "delete", "drop", "open",
                               "failed" }) =>
        \A name \in DOMAIN header_table :
            DataPages(Flush(disk, wbuf), header_table[name]) \subseteq in_use_pages

\* C5: for every table of the catalog the Definition page and the Meta page
\* are distinct, both greater than 0 and both in the in-use set.
C5_DefMetaDistinct ==
    opened =>
        \A name \in DOMAIN header_table :
            /\ header_table[name].col_def_offset # header_table[name].meta_offset
            /\ header_table[name].col_def_offset > 0
            /\ header_table[name].meta_offset > 0
            /\ header_table[name].col_def_offset \in in_use_pages
            /\ header_table[name].meta_offset \in in_use_pages

\* C6: drop of a known table takes the table out of the catalog and its
\* Definition page, its Meta page and its data pages out of the in-use set,
\* and leaves page 0 and the pages of the other tables in it.
C6_DropReleasesPages ==
    (opened /\ "open" \notin ops /\ "aborted" \notin ops) =>
        \A name \in DOMAIN header_table, build \in Builds :
            \E r \in {Drop(Cur, name, build)} :
                r.res = "Ok" =>
                    /\ name \notin DOMAIN r.header_table
                    /\ \A p \in OwnedPages(Flush(disk, wbuf), header_table)
                                    \ OwnedPages(Flush(disk, wbuf), r.header_table) :
                          p \notin r.in_use_pages
                    /\ \A p \in OwnedPages(Flush(disk, wbuf), r.header_table) :
                          p \in in_use_pages => p \in r.in_use_pages

\* C7: after a delete that returned and removed every stored row of a table,
\* every Meta record of the table is zero, select with an empty condition list
\* returns the empty list, and the in-use set holds no page besides page 0 and
\* the pages the catalog's tables still own ({0, def_page, meta_page} when
\* there is one table).
C7_DeleteAllReclaims ==
    opened =>
        \A name \in Known, conditions \in CondLists :
            (rows[name] # << >>
                /\ Cardinality(Satisfying(name, conditions)) = Len(rows[name])) =>
                \E r \in {Delete(Cur, name, conditions)} :
                    r.res = "Ok" =>
                        /\ DataPages(Flush(r.disk, r.wbuf), header_table[name]) = {}
                        /\ \E q \in {Select(r, name, << >>)} :
                              q.res = "Ok" /\ q.rows = << >> /\ q.zeros = 0
                        /\ r.in_use_pages
                              \subseteq OwnedPages(Flush(r.disk, r.wbuf), header_table)

\* C8: the count update returns is the number of stored rows of the table
\* that satisfied every condition before the call, and afterwards a select
\* returns each of them with the new values written into it.
C8_UpdateCount ==
    opened =>
        \A name \in Known, conditions \in CondLists, new_value \in NewValues :
            \E r \in {Update(Cur, name, conditions, new_value)} :
                r.res = "Ok" =>
                    /\ r.count = Cardinality(Satisfying(name, conditions))
                    /\ \E q \in {Select(r, name, << >>)} :
                          /\ q.res = "Ok"
                          /\ \A i \in Satisfying(name, conditions) :
                                Patched(rows[name][i], new_value) \in Range(q.rows)

\* C9: select returns a stored row when the row satisfies every condition,
\* and does not return it when it fails one.
C9_PredicateSelectivity ==
    opened =>
        \A name \in Known, conditions \in CondLists :
            \E r \in {Select(Cur, name, conditions)} :
                r.res = "Ok" =>
                    \A i \in 1..Len(rows[name]) :
                        /\ Matches(rows[name][i], conditions) = "yes"
                              => rows[name][i] \in Range(r.rows)
                        /\ Matches(rows[name][i], conditions) = "no"
                              => rows[name][i] \notin Range(r.rows)

\* C10: on a fresh file the first HEADER_TABLE_RECORD_COUNT create_table calls
\* with distinct names succeed and leave as many tables in the catalog, and
\* the next create_table fails with HeaderTableFull.
C10_HeaderCapacity ==
    /\ (nops <= HEADER_TABLE_RECORD_COUNT /\ nops > 0) =>
          (last.res = "Ok" /\ Cardinality(DOMAIN header_table) = nops)
    /\ nops = HEADER_TABLE_RECORD_COUNT + 1 =>
          (last.res = "HeaderTableFull"
              /\ Cardinality(DOMAIN header_table) = HEADER_TABLE_RECORD_COUNT)

\* C11: in every state reached by create_table, insert, delete, drop and
\* close+open, page 0 is in the in-use set, and the page find_spare_page
\* returns, and the page the Meta-page search of create_table returns, is
\* neither page 0 nor a page of the in-use set.
C11_AllocatorAvoidsInUse ==
    (opened /\ ops \subseteq {"create_table", "insert", "delete", "drop", "open", "failed"})
        => /\ 0 \in in_use_pages
           /\ find_spare_page(in_use_pages) \notin in_use_pages \cup {0}
           /\ meta_page_search(in_use_pages, find_spare_page(in_use_pages))
                  \notin in_use_pages \cup {0}

\* C12: a create_table call whose column sizes sum to more than PAGE_SIZE,
\* whatever the sum (also one above 65535), returns ColumnTooBig unless an
\* earlier check rejected it, and leaves the catalog without the table.
C12_ColumnTooBig ==
    (last.op = "create_table" /\ last.sizes > PAGE_SIZE)
        => /\ last.res \in {"ColumnTooBig", "TableExists"}
           /\ last.res = "ColumnTooBig" => last.name \notin DOMAIN header_table

\* C13: every table of the in-memory catalog has 1 <= row_len <= PAGE_SIZE.
C13_RowLenInRange ==
    opened =>
        \A table_name \in DOMAIN header_table :
            /\ header_table[table_name].row_len >= 1
            /\ header_table[table_name].row_len <= PAGE_SIZE

\* C14: an insert call on a table of the catalog with data whose length is
\* not the table's row_len returns an error, and the file, the writes the
\* writer holds, the catalog and the in-use set are what they were before.
C14_InsertWrongLength ==
    [][(/\ nops' = nops + 1
        /\ last'.op = "insert"
        /\ last'.name \in DOMAIN header_table
        /\ last'.len # header_table[last'.name].row_len)
          => /\ last'.res \notin {"Ok", "panic", "diverge"}
             /\ opened'
             /\ disk' = disk
             /\ wbuf' = wbuf
             /\ header_table' = header_table
             /\ in_use_pages' = in_use_pages]_vars

\* An insert with data of the wrong length was made on a table of the catalog.
C14_WrongLengthInserted ==
    /\ last.op = "insert"
    /\ last.res = "DataLen"
    /\ last.name \in DOMAIN header_table
    /\ last.len # header_table[last.name].row_len

\* C15: after create_table calls that all succeeded, every table of the
\* catalog has its own Header record in the file (length byte and name at
\* byte HEADER_TABLE_ROW_LEN * header_record_offset), and no two tables have
\* the same header_record_offset.
C15_HeaderSlotChoice ==
    (opened /\ ops = {"create_table"})
        => \A n \in DOMAIN header_table :
               /\ Bytes(Flush(disk, wbuf),
                        header_table[n].header_record_offset * HEADER_TABLE_ROW_LEN,
                        1 + Len(n)) = << Len(n) >> \o n
               /\ \A o \in DOMAIN header_table \ {n} :
                      header_table[o].header_record_offset
                          # header_table[n].header_record_offset

\* C16: an insert that succeeds on a table whose first Meta record is
\* non-zero changes bytes of the data page that record refers to only, and
\* leaves the length of the file as it was.
C16_InsertFrame ==
    [][(/\ nops' = nops + 1
        /\ last'.op = "insert"
        /\ last'.res = "Ok"
        /\ last'.name \in DOMAIN header_table
        /\ FirstRecord(FileNow, header_table[last'.name]) # 0)
          => /\ FileNow'.len = FileNow.len
             /\ \A o \in Changed(FileNow, FileNow') :
                    o \div PAGE_SIZE = FirstRecord(FileNow, header_table[last'.name])]_vars

\* C17: when a successful insert takes a new page into the in-use set, the
\* table's Meta page holds a record whose value is that page number minus the
\* number of the Meta page, and adding the Meta page number to the values of
\* the table's non-zero Meta records gives pages of the in-use set.
C17_RelativeMetaValues ==
    [][(/\ nops' = nops + 1
        /\ last'.op = "insert"
        /\ last'.res = "Ok"
        /\ last'.name \in DOMAIN header_table)
          => /\ \A p \in in_use_pages' \ in_use_pages :
                    (p - header_table[last'.name].meta_offset)
                        \in DataPages(FileNow', header_table[last'.name])
             /\ \A v \in DataPages(FileNow', header_table[last'.name]) :
                    (v + header_table[last'.name].meta_offset) \in in_use_pages']_vars

\* C18: a drop call on a table of the catalog returns Ok, leaves the
\* HEADER_TABLE_ROW_LEN bytes at byte HEADER_TABLE_ROW_LEN * header_record_offset
\* of the file all zero, and changes no byte outside them.
C18_DropZeroesOwnRecord ==
    [][(/\ nops' = nops + 1
        /\ last'.op = "drop"
        /\ last'.name \in DOMAIN header_table)
          => /\ last'.res = "Ok"
             /\ AllZero(FileNow',
                        header_table[last'.name].header_record_offset
                            * HEADER_TABLE_ROW_LEN,
                        HEADER_TABLE_ROW_LEN)
             /\ \A o \in Changed(FileNow, FileNow') :
                    o \div HEADER_TABLE_ROW_LEN
                        = header_table[last'.name].header_record_offset]_vars

\* C19: on a table that was only created and inserted into, select with no
\* condition returns Ok and examines PAGE_SIZE \div row_len slots for each of
\* the table's data pages (the rows it returns, all-zero ones included).
C19_SlotsPerPage ==
    (opened /\ ops \subseteq {"create_table", "insert"})
        => \A n \in Known :
               (header_table[n].row_len > 0
                    /\ DataPages(disk, header_table[n]) # {})
                 => /\ Select(Cur, n, << >>).res = "Ok"
                    /\ Len(Select(Cur, n, << >>).rows) + Select(Cur, n, << >>).zeros
                           = Cardinality(DataPages(disk, header_table[n]))
                                 * (PAGE_SIZE \div header_table[n].row_len)

\* C20: every select, update and delete call made on a table of the catalog
\* returns, with a result or with an error.
C20_CallsReturn ==
    [][(/\ nops' = nops + 1
        /\ last'.op \in {"select", "update", "delete"}
        /\ last'.name \in DOMAIN header_table)
          => last'.res # "diverge"]_vars

\* C21: on a table that has a data page, select, update and delete with a
\* condition whose range is not within the row, and update with a new_fields
\* entry that reaches past the end of the row, return an error value (they do
\* not abort and do not succeed), and update and delete leave the file as it
\* was.
C21_OutOfRangeRejected ==
    opened =>
        \A n \in DOMAIN header_table :
            DataPages(FileNow, header_table[n]) # {} =>
                /\ \A conditions \in CondLists :
                       OutOfRow(conditions, header_table[n].row_len) =>
                           /\ IsError(Select(Cur, n, conditions).res)
                           /\ IsError(Delete(Cur, n, conditions).res)
                           /\ Flush(Delete(Cur, n, conditions).disk,
                                    Delete(Cur, n, conditions).wbuf) = FileNow
                /\ \A conditions \in CondLists, new_value \in NewValues :
                       (\/ OutOfRow(conditions, header_table[n].row_len)
                        \/ OutOfRow(new_value, header_table[n].row_len)) =>
                           /\ IsError(Update(Cur, n, conditions, new_value).res)
                           /\ Flush(Update(Cur, n, conditions, new_value).disk,
                                    Update(Cur, n, conditions, new_value).wbuf) = FileNow

\* C22: in every state reached by create_table, insert, delete, drop and
\* close+open, no page is used twice: a table's Definition page is not its
\* Meta page, neither is one of its data pages, page 0 is none of them, no two
\* tables of the catalog share a page, and the page find_spare_page returns
\* is not a page that a table of the catalog owns in the file.
C22_PageOwnership ==
    (opened /\ ops \subseteq {"create_table", "insert", "delete", "drop", "open", "failed"})
        => /\ \A n \in DOMAIN header_table :
                  /\ header_table[n].col_def_offset # header_table[n].meta_offset
                  /\ DataPages(FileNow, header_table[n])
                         \cap {header_table[n].col_def_offset, header_table[n].meta_offset}
                             = {}
                  /\ 0 \notin TablePages(FileNow, header_table[n])
                  /\ \A o \in DOMAIN header_table \ {n} :
                         TablePages(FileNow, header_table[n])
                             \cap TablePages(FileNow, header_table[o]) = {}
           /\ find_spare_page(in_use_pages) \notin OwnedPages(FileNow, header_table)

====
